---------------------------- MODULE Spec2Model ----------------------------
(***************************************************************************)
(* Model of sync-git-vss.py: one-way replay of the changes of a git branch *)
(* into a Visual SourceSafe (VSS) project.                                 *)
(*                                                                         *)
(* The VSS database is modelled by its live containers (projects), its     *)
(* live leaves (files), the leaves checked out by the script's user, the   *)
(* value of the .gitcommit marker leaf and the current project.  Every     *)
(* call of ss.exe is one step; its outcome is the one the state of the     *)
(* database determines, or a failure whose text matches none of the        *)
(* patterns the script looks for ("unclassified").  Names in the database  *)
(* are case-insensitive, as are names in the (Windows) working tree.       *)
(***************************************************************************)
EXTENDS Integers, Sequences, FiniteSets, TLC

(***************************************************************************)
(* Bounds of the model.                                                    *)
(***************************************************************************)
MaxHist  == 3   \* commits in the source history
MaxFail  == 1   \* unclassified failures of ss.exe in one run
MaxStale == 1   \* leaves left checked out by an earlier, killed run
MaxName  == 3   \* length of a leaf name below a long container
MaxRuns  == 2   \* runs of the script, one after the other

(***************************************************************************)
(* Program constants.                                                      *)
(***************************************************************************)
ts_size        == 10
pathlen_vss    == 259
gitcommit_file == ".gitcommit"
None           == -1

(***************************************************************************)
(* Paths.  A path is the sequence of its components ("a/b/x" is            *)
(* <<"a","b","x">>); the empty sequence is the root (vss_proj, base_dir).  *)
(* The source holds a leaf three containers deep, a leaf two containers    *)
(* deep, and a leaf below the first container under two spellings.         *)
(***************************************************************************)
Paths == { <<"a", "b", "c", "x">>, <<"a", "b", "z">>, <<"a", "y">>, <<"a", "Y">> }

Kinds == { "Upserted", "Removed" }

\* str(time.time())[:ts_size]
ts == "1762134000"

lower(s) ==
    IF s = "Y" THEN "y" ELSE IF s = "Y" \o ts THEN "y" \o ts ELSE s

LowerPath(p) == [k \in 1..Len(p) |-> lower(p[k])]

dirname(p) == IF p = <<>> THEN <<>> ELSE SubSeq(p, 1, Len(p) - 1)

basename(p) == IF p = <<>> THEN "" ELSE p[Len(p)]

Prefixes(p) == { SubSeq(p, 1, k) : k \in 0..Len(p) }

\* containers strictly above a leaf path, root included
Ancestors(p) == Prefixes(dirname(p))

RECURSIVE StrLen(_)
\* len() of the string path: components joined by "/"
StrLen(p) ==
    IF p = <<>> THEN 0
    ELSE IF Len(p) = 1 THEN Len(p[1])
    ELSE StrLen(dirname(p)) + 1 + Len(basename(p))

Min(a, b) == IF a < b THEN a ELSE b

(***************************************************************************)
(* trunc_filename: the characters of filename that are kept, or            *)
(* "TypeError" when the function calls fatal_error (with one argument).    *)
(***************************************************************************)
trunc_index_wide(subproj, filename) ==
    LET path  == StrLen(subproj) + 1 + Len(filename)
        trunc == path + ts_size - pathlen_vss
    IN  Len(filename) - trunc + 1

trunc_index(subproj, filename) ==
    LET path  == StrLen(subproj) + 1 + Len(filename)
        trunc == path + ts_size - pathlen_vss
    IN  Len(filename) - trunc

trunc_filename_late(subproj, filename) ==
    LET index == trunc_index(subproj, filename)
    IN  IF index < -1 THEN "TypeError"
        ELSE IF index < 0 THEN ""
        ELSE SubSeq(filename, 1, Min(index, Len(filename)))

trunc_filename(subproj, filename) ==
    LET index == trunc_index(subproj, filename)
    IN  IF index < 0 THEN "TypeError"
        ELSE SubSeq(filename, 1, Min(index, Len(filename)))

(***************************************************************************)
(* The source: a linear history, oldest commit first; each commit touches  *)
(* one path.  Revision n is the tree after the first n commits.            *)
(***************************************************************************)
RECURSIVE TreeAt(_, _)
TreeAt(h, n) ==
    IF n = 0 THEN {}
    ELSE IF h[n].kind = "Upserted"
         THEN TreeAt(h, n - 1) \cup { LowerPath(h[n].path) }
         ELSE TreeAt(h, n - 1) \ { LowerPath(h[n].path) }

Consistent(h) ==
    \A n \in 1..Len(h) :
        h[n].kind = "Removed" => LowerPath(h[n].path) \in TreeAt(h, n - 1)

Entries == [path : Paths, kind : Kinds]

Histories ==
    { h \in UNION { [1..n -> Entries] : n \in 1..MaxHist } : Consistent(h) }

DirsOf(files) == UNION { Ancestors(f) : f \in files }

(***************************************************************************)
(* Sources whose paths come close to pathlen_vss: one leaf, with a name of *)
(* 1..MaxName characters, in one container whose name is so long that the  *)
(* timestamp leaves MaxName, ..., 1, 0 or no characters for the leaf name. *)
(***************************************************************************)
RECURSIVE Rep(_)
Rep(n) ==
    IF n = 0 THEN ""
    ELSE LET half == Rep(n \div 2)
         IN  half \o half \o (IF n % 2 = 1 THEN "a" ELSE "")

\* sources for runs that follow one another
RerunPaths == { <<"a", "b", "c", "x">>, <<"a", "y">> }

RerunHistories ==
    { h \in Histories : \A n \in 1..Len(h) : h[n].path \in RerunPaths }

LongLens ==
    (pathlen_vss - ts_size - 1 - MaxName)..(pathlen_vss - ts_size + 1)

LongPaths == { <<Rep(n), Rep(m)>> : n \in LongLens, m \in 1..MaxName }

LongHistories ==
    UNION { { << [path |-> p, kind |-> "Upserted"] >>,
              << [path |-> p, kind |-> "Upserted"],
                 [path |-> p, kind |-> "Removed"] >> } : p \in LongPaths }


(***************************************************************************)
(* State.                                                                  *)
(***************************************************************************)
VARIABLES
    hist,          \* source history, oldest first (fixed during a run)
    base_dir,      \* revision the clone in base_dir has fetched; None when
                   \* base_dir does not exist, 0 when it holds no repository
    git_ok,        \* whether git clone / git fetch of this run succeeds
    vss_dirs,      \* live containers of the VSS database (lower case)
    vss_files,     \* live leaves of the VSS database (lower case)
    vss_ckout,     \* leaves checked out by vss_user
    marker,        \* content of $/vss_proj/.gitcommit, None when absent
    vss_cwd,       \* current VSS project, relative to vss_proj
    cwd,           \* os.getcwd(), relative to base_dir
    pc,            \* position of the script
    ret,           \* where vss_cd_root returns to
    sync_commit,   \* main: sync_commit
    changes,       \* main: changes
    i,             \* process_changes: i
    subproj,       \* process_change: subproj
    filename,      \* process_change: filename
    k,             \* index of the for loops over directories
    cs_path,       \* vss_create_subproj: path
    cs_dirs,       \* vss_create_subproj: dirs
    des_subproj,   \* vss_delete_empty_subproj: subproj
    new_filename,  \* vss_delete: new_filename
    run,           \* history: number of the current run
    prev,          \* history: how the run before ended
    ckout0,        \* history: vss_ckout when the run started
    marker0,       \* history: marker when the run started
    nfail,         \* history: unclassified failures injected so far
    failed,        \* history: some primitive failed with unclassified text
    issued,        \* history: ss.exe calls of the current record
    pre_dirs,      \* history: vss_dirs when the current record started
    pre_files,     \* history: vss_files when the current record started
    applied,       \* history: records acted on, with the action chosen
    result         \* history: how the last record ended

src    == <<hist, base_dir, git_ok>>
store  == <<vss_dirs, vss_files, vss_ckout, marker, vss_cwd>>
main   == <<sync_commit, changes>>
locals == <<subproj, filename, k, cs_path, cs_dirs, des_subproj, new_filename>>
runs   == <<run, prev, ckout0>>
ghost  == <<marker0, pre_dirs, pre_files, applied>>
vars   == <<runs, src, store, cwd, pc, ret, main, i, locals, ghost, nfail, failed,
            issued, result>>

gitcommit == <<gitcommit_file>>

(***************************************************************************)
(* Outcomes of ss.exe, classified by the text the script looks for.        *)
(* fail = TRUE is a failure whose text matches no pattern.                 *)
(***************************************************************************)
Fails == IF nfail < MaxFail THEN BOOLEAN ELSE {FALSE}

Abs(rel) == LowerPath(vss_cwd \o rel)

Children(d) ==
    { e \in vss_dirs \cup vss_files : e # <<>> /\ dirname(e) = d }

\* cmd_vss_cd, cmd_vss_cp
ss_cd(fail, p) ==
    IF fail THEN "unclassified"
    ELSE IF p \in vss_dirs THEN "ok" ELSE "not_exist"

\* cmd_vss_create
ss_create(fail, p) ==
    IF fail THEN "unclassified"
    ELSE IF p \in vss_dirs THEN "already_exists" ELSE "ok"

\* cmd_vss_add
ss_add(fail, p) ==
    IF fail THEN "unclassified"
    ELSE IF p \in vss_files THEN "already_exists" ELSE "ok"

\* cmd_vss_ckout; absent is the text for a leaf that is not live
ss_checkout(fail, absent, p) ==
    IF fail THEN "unclassified"
    ELSE IF p \notin vss_files THEN absent
    ELSE IF p \in vss_ckout THEN "mine" ELSE "ok"

\* cmd_vss_ckin
ss_checkin(fail, p) ==
    IF fail THEN "unclassified"
    ELSE IF p \notin vss_files THEN "not_existing"
    ELSE IF p \in vss_ckout THEN "ok" ELSE "unclassified"

\* cmd_vss_rename
ss_rename(fail, old, new) ==
    IF fail THEN "unclassified"
    ELSE IF old \notin vss_dirs \cup vss_files THEN "not_exist"
    ELSE IF new \in vss_dirs \cup vss_files THEN "already_exists" ELSE "ok"

\* cmd_vss_del
ss_delete(fail, p) ==
    IF fail THEN "unclassified"
    ELSE IF p \in vss_dirs \cup vss_files THEN "ok" ELSE "not_existing"

\* cmd_vss_dir
ss_dir(fail) ==
    IF fail THEN "unclassified"
    ELSE IF Children(LowerPath(vss_cwd)) = {} THEN "No items found"
    ELSE "items"

\* cmd_vss_git_ckout
ss_git_ckout(fail) ==
    IF fail THEN "unclassified"
    ELSE IF marker = None THEN "not_existing"
    ELSE IF gitcommit \in vss_ckout THEN "mine" ELSE "ok"

\* cmd_vss_git_ckin
ss_git_ckin(fail) ==
    IF fail THEN "unclassified"
    ELSE IF marker = None THEN "not_existing"
    ELSE IF gitcommit \in vss_ckout THEN "ok" ELSE "unclassified"

\* cmd_vss_add of the marker leaf
ss_git_add(fail) ==
    IF fail THEN "unclassified"
    ELSE IF marker = None THEN "ok" ELSE "already_exists"

(***************************************************************************)
(* Bookkeeping shared by the steps.                                        *)
(***************************************************************************)
Call(op, arg, out, fail) ==
    /\ issued' = Append(issued, [op |-> op, arg |-> arg, out |-> out])
    /\ nfail' = IF fail THEN nfail + 1 ELSE nfail
    /\ failed' = (failed \/ out = "unclassified")

NoCall == UNCHANGED <<issued, nfail, failed>>

Goto(l) == pc' = l /\ i' = i /\ result' = result

Return_again(res) == pc' = "process_changes" /\ i' = i /\ result' = res

\* the current record is finished: back to the for loop of process_changes
Return(res) == pc' = "process_changes" /\ i' = i + 1 /\ result' = res

(***************************************************************************)
(* git helpers.                                                            *)
(***************************************************************************)
\* the commit checked out in base_dir; 0 when there is none
head == IF base_dir = None THEN 0 ELSE base_dir

\* cmd_git_hash; 0 is the empty output
git_hash == head

\* cmd_git_log: the paths of the commits after since, newest commit first
\* ("HEAD..." + since prints nothing when since is empty or unknown to the
\* clone)
git_log(since) ==
    LET from == IF since = None THEN 0 ELSE since
    IN  IF since # None /\ (since = 0 \/ since > head) THEN <<>>
        ELSE [n \in 1..(head - from) |-> hist[head + 1 - n].path]

seen_key_exact(str) == str

\* str.lower() in unique
seen_key(str) == LowerPath(str)

RECURSIVE unique(_, _)
unique(lines, seen) ==
    IF lines = <<>> THEN <<>>
    ELSE IF seen_key(Head(lines)) \in seen
         THEN unique(Tail(lines), seen)
         ELSE <<Head(lines)>>
              \o unique(Tail(lines), seen \cup { seen_key(Head(lines)) })

git_changes(since) == unique(git_log(since), {})

\* the working tree of the checked out branch
worktree == TreeAt(hist, head)

\* os.path.isfile
isfile(path) == LowerPath(path) \in worktree

isdir_never(dir) == FALSE

\* os.path.isdir, on a directory below base_dir
isdir(dir) == \E f \in worktree : LowerPath(dir) \in Ancestors(f)

(***************************************************************************)
(* Initial state: the database mirrors some revision of the source, the    *)
(* marker (if any) names a revision, and an earlier run that was killed    *)
(* may have left leaves checked out.                                       *)
(***************************************************************************)
InitOver(histories) ==
    /\ hist \in histories
    /\ git_ok \in BOOLEAN
    /\ marker \in {None} \cup (1..Len(hist))
    /\ base_dir \in {None, marker}
    /\ \E t \in 0..Len(hist) :
          /\ (marker # None => t = marker)
          /\ vss_files = TreeAt(hist, t)
          /\ vss_dirs \in (IF t = 0 /\ marker = None
                            THEN { {}, {<<>>} }
                            ELSE { DirsOf(TreeAt(hist, t)) \cup {<<>>} })
    /\ vss_ckout \in
          { s \in SUBSET (vss_files
                          \cup (IF marker = None THEN {} ELSE {gitcommit})) :
                Cardinality(s) <= MaxStale }
    /\ vss_cwd = <<>>
    /\ cwd = <<>>
    /\ pc = "start"
    /\ ret = "hash_get"
    /\ sync_commit = None
    /\ changes = <<>>
    /\ i = 1
    /\ subproj = <<>>
    /\ filename = ""
    /\ k = 1
    /\ cs_path = <<>>
    /\ cs_dirs = <<>>
    /\ des_subproj = <<>>
    /\ new_filename = ""
    /\ run = 1
    /\ ckout0 = vss_ckout
    /\ prev = [pc |-> "none", git_ok |-> TRUE, marker |-> None,
               dirs |-> {}, files |-> {}]
    /\ marker0 = marker
    /\ nfail = 0
    /\ failed = FALSE
    /\ issued = <<>>
    /\ pre_dirs = vss_dirs
    /\ pre_files = vss_files
    /\ applied = <<>>
    /\ result = "none"

Init == InitOver(Histories)

InitLong == InitOver(LongHistories)

InitRerun == InitOver(RerunHistories)

(***************************************************************************)
(* main, lines 436-444: fetch or clone, check out the branch, then         *)
(* vss_cd_root.                                                            *)
(***************************************************************************)
git_clone == IF git_ok THEN Len(hist) ELSE 0

git_fetch == IF git_ok /\ base_dir # 0 THEN Len(hist) ELSE base_dir

GitSetup ==
    /\ pc = "start"
    /\ base_dir' = IF base_dir = None THEN git_clone ELSE git_fetch
    /\ cwd' = <<>>
    /\ ret' = "hash_get"
    /\ Goto("cd_root")
    /\ NoCall
    /\ UNCHANGED <<runs, hist, git_ok, store, main, locals, ghost>>

(***************************************************************************)
(* vss_cd_root, lines 199-214.                                             *)
(***************************************************************************)
CdRoot ==
    /\ pc = "cd_root"
    /\ \E fail \in Fails :
          LET out == ss_cd(fail, <<>>)
          IN  /\ Call("cd", <<>>, out, fail)
              /\ IF out = "ok"
                 THEN vss_cwd' = <<>> /\ cwd' = <<>> /\ Goto(ret)
                 ELSE /\ UNCHANGED <<vss_cwd, cwd>>
                      /\ IF out = "not_exist" THEN Goto("cd_root_create")
                         ELSE Goto("fatal_error")
    /\ UNCHANGED <<runs, src, vss_dirs, vss_files, vss_ckout, marker, ret, main,
                   locals, ghost>>

CdRootCreate ==
    /\ pc = "cd_root_create"
    /\ \E fail \in Fails :
          LET out == ss_create(fail, <<>>)
          IN  /\ Call("create", <<>>, out, fail)
              /\ IF out = "ok"
                 THEN vss_dirs' = vss_dirs \cup {<<>>} /\ Goto("cd_root_cd")
                 ELSE UNCHANGED vss_dirs /\ Goto("fatal_error")
    /\ UNCHANGED <<runs, src, vss_files, vss_ckout, marker, vss_cwd, cwd, ret,
                   main, locals, ghost>>

CdRootCd ==
    /\ pc = "cd_root_cd"
    /\ \E fail \in Fails :
          LET out == ss_cd(fail, <<>>)
          IN  /\ Call("cd", <<>>, out, fail)
              /\ IF out = "ok"
                 THEN vss_cwd' = <<>> /\ cwd' = <<>> /\ Goto(ret)
                 ELSE UNCHANGED <<vss_cwd, cwd>> /\ Goto("fatal_error")
    /\ UNCHANGED <<runs, src, vss_dirs, vss_files, vss_ckout, marker, ret, main,
                   locals, ghost>>

(***************************************************************************)
(* vss_git_hash_get, lines 229-240, then main, lines 447-452: git_hash     *)
(* and git_changes.  When the marker is already checked out by the user,   *)
(* the working copy that is read is the one of that earlier checkout and   *)
(* holds the value of the database.                                        *)
(***************************************************************************)
HashGet ==
    /\ pc = "hash_get"
    /\ \E fail \in Fails :
          LET out == ss_git_ckout(fail)
          IN  /\ Call("checkout", gitcommit, out, fail)
              /\ vss_ckout' = IF out = "ok" THEN vss_ckout \cup {gitcommit}
                              ELSE vss_ckout
              /\ IF out = "not_existing"
                 THEN /\ sync_commit' = None
                      /\ changes' = git_changes(None)
                      /\ Goto("process_changes")
                 ELSE IF out \in {"ok", "mine"}
                 THEN /\ sync_commit' = marker
                      /\ changes' = git_changes(marker)
                      /\ Goto("process_changes")
                 ELSE /\ UNCHANGED main
                      /\ Goto("fatal_error")
    /\ UNCHANGED <<runs, src, vss_dirs, vss_files, marker, vss_cwd, cwd, ret,
                   locals, ghost>>

(***************************************************************************)
(* process_changes, lines 424-430, and main, lines 454-455.                *)
(***************************************************************************)
process_changes_done_early(idx, list) == idx >= Len(list)

\* the for loop over changes is exhausted
process_changes_done(idx, list) == idx > Len(list)

record_entry_unanchored == "process_change"

\* line 413: process_change starts with vss_cd_root()
record_entry == "cd_root"

ProcessChanges ==
    /\ pc = "process_changes"
    /\ ret' = IF process_changes_done(i, changes) THEN "hash_set"
              ELSE "process_change"
    /\ Goto(IF process_changes_done(i, changes) THEN "cd_root"
            ELSE record_entry)
    /\ issued' = <<>>
    /\ pre_dirs' = vss_dirs
    /\ pre_files' = vss_files
    /\ UNCHANGED <<runs, src, store, cwd, main, locals, marker0, applied, nfail,
                   failed>>

(***************************************************************************)
(* process_change, lines 412-423 (after its vss_cd_root), with the first   *)
(* test of vss_cd_create, lines 270-271.                                   *)
(***************************************************************************)
ProcessChange ==
    /\ pc = "process_change"
    /\ LET path == changes[i]
       IN  /\ subproj' = dirname(path)
           /\ filename' = basename(path)
           /\ k' = 1
           /\ IF isfile(path)
              THEN /\ applied' = Append(applied,
                                   [path |-> path, kind |-> "Upserted"])
                   /\ Goto(IF dirname(path) = <<>> THEN "add"
                           ELSE "rename_cd")
              ELSE /\ applied' = Append(applied,
                                   [path |-> path, kind |-> "Removed"])
                   /\ Goto("del_cd")
    /\ NoCall
    /\ UNCHANGED <<runs, src, store, cwd, ret, main, cs_path, cs_dirs,
                   des_subproj, new_filename, marker0, pre_dirs, pre_files>>


(***************************************************************************)
(* vss_cd_create, lines 269-282, and vss_rename_cd, lines 261-268.         *)
(* A CalledProcessError of vss_rename_cd ends in the handler of            *)
(* vss_cd_create: vss_cd_root and vss_create_subproj when the text ends    *)
(* with "not exist", otherwise fatal_error(err, subproj, filename), where  *)
(* filename is not defined (a NameError).                                  *)
(***************************************************************************)
CdCreateHandler(out) ==
    IF out = "not_exist"
    THEN /\ ret' = "create_subproj"
         /\ cs_path' = subproj
         /\ cs_dirs' = <<>>
         /\ Goto("cd_root")
    ELSE /\ UNCHANGED <<ret, cs_path, cs_dirs>>
         /\ Goto("crash")

RenameCd ==
    /\ pc = "rename_cd"
    /\ \E fail \in Fails :
          LET dir == Abs(<<subproj[k]>>)
              out == ss_rename(fail, dir, dir)
          IN  /\ Call("rename", <<dir, dir>>, out, fail)
              /\ IF out \in {"ok", "already_exists"}
                 THEN /\ Goto("rename_cd_cd")
                      /\ UNCHANGED <<ret, cs_path, cs_dirs>>
                 ELSE CdCreateHandler(out)
    /\ UNCHANGED <<runs, src, store, cwd, main, subproj, filename, k, des_subproj,
                   new_filename, ghost>>

RenameCdCd ==
    /\ pc = "rename_cd_cd"
    /\ \E fail \in Fails :
          LET dir == Abs(<<subproj[k]>>)
              out == ss_cd(fail, dir)
          IN  /\ Call("cd", dir, out, fail)
              /\ IF out = "ok"
                 THEN /\ vss_cwd' = dir
                      /\ UNCHANGED <<ret, cs_path, cs_dirs>>
                      /\ IF k < Len(subproj)
                         THEN k' = k + 1 /\ cwd' = cwd /\ Goto("rename_cd")
                         ELSE k' = k /\ cwd' = cwd \o subproj /\ Goto("add")
                 ELSE /\ UNCHANGED <<vss_cwd, cwd, k>>
                      /\ CdCreateHandler(out)
    /\ UNCHANGED <<runs, src, vss_dirs, vss_files, vss_ckout, marker, main,
                   subproj, filename, des_subproj, new_filename, ghost>>

(***************************************************************************)
(* vss_create_subproj, lines 250-260: any failure of the cd into dirname   *)
(* is answered by the recursive call on dirname.                           *)
(***************************************************************************)
dirs_insert_last(dirs, name) == Append(dirs, name)

\* line 252: dirs.insert(0, os.path.basename(path))
dirs_insert(dirs, name) == <<name>> \o dirs

CreateSubproj ==
    /\ pc = "create_subproj"
    /\ cs_dirs' = dirs_insert(cs_dirs, basename(cs_path))
    /\ IF dirname(cs_path) # <<>>
       THEN \E fail \in Fails :
               LET dir == Abs(dirname(cs_path))
                   out == ss_cd(fail, dir)
               IN  /\ Call("cd", dir, out, fail)
                   /\ IF out = "ok"
                      THEN /\ vss_cwd' = dir
                           /\ cwd' = cwd \o dirname(cs_path)
                           /\ cs_path' = cs_path
                           /\ k' = 1
                           /\ Goto("create_cd")
                      ELSE /\ UNCHANGED <<vss_cwd, cwd, k>>
                           /\ cs_path' = dirname(cs_path)
                           /\ Goto("create_subproj")
       ELSE /\ NoCall
            /\ UNCHANGED <<vss_cwd, cwd, cs_path>>
            /\ k' = 1
            /\ Goto("create_cd")
    /\ UNCHANGED <<runs, src, vss_dirs, vss_files, vss_ckout, marker, ret, main,
                   subproj, filename, des_subproj, new_filename, ghost>>

(***************************************************************************)
(* vss_create_cd, lines 241-249.  A failure of create other than "already  *)
(* exists" calls fatal_error(err, subproj, filename) with names that are   *)
(* not defined (a NameError); a failure of the cd is not looked at.        *)
(***************************************************************************)
CreateCd ==
    /\ pc = "create_cd"
    /\ \E fail \in Fails :
          LET dir == Abs(<<cs_dirs[k]>>)
              out == ss_create(fail, dir)
          IN  /\ Call("create", dir, out, fail)
              /\ vss_dirs' = IF out = "ok" THEN vss_dirs \cup {dir}
                             ELSE vss_dirs
              /\ IF out \in {"ok", "already_exists"}
                 THEN Goto("create_cd_cd")
                 ELSE Goto("crash")
    /\ UNCHANGED <<runs, src, vss_files, vss_ckout, marker, vss_cwd, cwd, ret,
                   main, locals, ghost>>

CreateCdCd ==
    /\ pc = "create_cd_cd"
    /\ \E fail \in Fails :
          LET dir == Abs(<<cs_dirs[k]>>)
              out == ss_cd(fail, dir)
          IN  /\ Call("cd", dir, out, fail)
              /\ vss_cwd' = IF out = "ok" THEN dir ELSE vss_cwd
    /\ cwd' = cwd \o <<cs_dirs[k]>>
    /\ IF k < Len(cs_dirs)
       THEN k' = k + 1 /\ Goto("create_cd")
       ELSE k' = k /\ Goto("add")
    /\ UNCHANGED <<runs, src, vss_dirs, vss_files, vss_ckout, marker, ret, main,
                   subproj, filename, cs_path, cs_dirs, des_subproj,
                   new_filename, ghost>>

(***************************************************************************)
(* vss_add_or_modify, lines 283-315.                                       *)
(***************************************************************************)
Add ==
    /\ pc = "add"
    /\ \E fail \in Fails :
          LET leaf == Abs(<<filename>>)
              out  == ss_add(fail, leaf)
          IN  /\ Call("add", leaf, out, fail)
              /\ vss_files' = IF out = "ok" THEN vss_files \cup {leaf}
                              ELSE vss_files
              /\ IF out = "ok" THEN Return("added")
                 ELSE IF out = "already_exists" THEN Goto("am_checkout")
                 ELSE Goto("fatal_error")
    /\ UNCHANGED <<runs, src, vss_dirs, vss_ckout, marker, vss_cwd, cwd, ret,
                   main, locals, ghost>>

\* line 292
AmCheckout ==
    /\ pc = "am_checkout"
    /\ \E fail \in Fails, absent \in {"not_existing", "deleted"} :
          LET leaf == Abs(<<filename>>)
              out  == ss_checkout(fail, absent, leaf)
          IN  /\ Call("checkout", leaf, out, fail)
              /\ vss_ckout' = IF out = "ok" THEN vss_ckout \cup {leaf}
                              ELSE vss_ckout
              /\ IF out = "ok" THEN Goto("am_checkin")
                 ELSE IF out = "mine" THEN Goto("am_checkin_mine")
                 ELSE Goto("fatal_error")
    /\ UNCHANGED <<runs, src, vss_dirs, vss_files, marker, vss_cwd, cwd, ret,
                   main, locals, ghost>>

\* line 297: the checkin of the branch "You currently have"
AmCheckinMine ==
    /\ pc = "am_checkin_mine"
    /\ \E fail \in Fails :
          LET leaf == Abs(<<filename>>)
              out  == ss_checkin(fail, leaf)
          IN  /\ Call("checkin", leaf, out, fail)
              /\ vss_ckout' = IF out = "ok" THEN vss_ckout \ {leaf}
                              ELSE vss_ckout
              /\ IF out = "ok" THEN Goto("am_checkin")
                 ELSE Goto("fatal_error")
    /\ UNCHANGED <<runs, src, vss_dirs, vss_files, marker, vss_cwd, cwd, ret,
                   main, locals, ghost>>

AmCheckin_held ==
    /\ pc = "am_checkin"
    /\ \E fail \in Fails :
          LET leaf == Abs(<<filename>>)
              out  == ss_checkin(fail, leaf)
          IN  /\ Call("checkin", leaf, out, fail)
              /\ vss_ckout' = vss_ckout
              /\ IF out = "ok" THEN Goto("am_rename")
                 ELSE Goto("fatal_error")
    /\ UNCHANGED <<runs, src, vss_dirs, vss_files, marker, vss_cwd, cwd, ret,
                   main, locals, ghost>>

\* line 304: the checkin that follows the try block of the checkout
AmCheckin ==
    /\ pc = "am_checkin"
    /\ \E fail \in Fails :
          LET leaf == Abs(<<filename>>)
              out  == ss_checkin(fail, leaf)
          IN  /\ Call("checkin", leaf, out, fail)
              /\ vss_ckout' = IF out = "ok" THEN vss_ckout \ {leaf}
                              ELSE vss_ckout
              /\ IF out = "ok" THEN Goto("am_rename")
                 ELSE Goto("fatal_error")
    /\ UNCHANGED <<runs, src, vss_dirs, vss_files, marker, vss_cwd, cwd, ret,
                   main, locals, ghost>>

\* lines 310-315: rename to the spelling of the source; fatal_error(err)
\* has too few arguments (a TypeError)
AmRename ==
    /\ pc = "am_rename"
    /\ \E fail \in Fails :
          LET leaf == Abs(<<filename>>)
              out  == ss_rename(fail, leaf, leaf)
          IN  /\ Call("rename", <<leaf, leaf>>, out, fail)
              /\ IF out \in {"ok", "already_exists"} THEN Return("modified")
                 ELSE Goto("crash")
    /\ UNCHANGED <<runs, src, store, cwd, ret, main, locals, ghost>>


(***************************************************************************)
(* vss_delete, lines 344-373.                                              *)
(***************************************************************************)
\* lines 346-349: whatever the failure of the cd, the delete returns
DelCd ==
    /\ pc = "del_cd"
    /\ \E fail \in Fails :
          LET dir == Abs(subproj)
              out == ss_cd(fail, dir)
          IN  /\ Call("cd", dir, out, fail)
              /\ IF out = "ok"
                 THEN vss_cwd' = dir /\ Goto("del_checkout")
                 ELSE vss_cwd' = vss_cwd /\ Return("del_skipped")
    /\ UNCHANGED <<runs, src, vss_dirs, vss_files, vss_ckout, marker, cwd, ret,
                   main, locals, ghost>>

ckout_absent_first(out) == out = "not_existing"

\* line 354: "not an existing" in err or "has been deleted" in err
ckout_absent(out) == out \in {"not_existing", "deleted"}

\* lines 350-357
DelCheckout ==
    /\ pc = "del_checkout"
    /\ \E fail \in Fails, absent \in {"not_existing", "deleted"} :
          LET leaf == Abs(<<filename>>)
              out  == ss_checkout(fail, absent, leaf)
          IN  /\ Call("checkout", leaf, out, fail)
              /\ vss_ckout' = IF out = "ok" THEN vss_ckout \cup {leaf}
                              ELSE vss_ckout
              /\ IF ckout_absent(out) THEN Return("del_noop")
                 ELSE IF out \in {"ok", "mine"} THEN Goto("del_rename")
                 ELSE Goto("fatal_error")
    /\ UNCHANGED <<runs, src, vss_dirs, vss_files, marker, vss_cwd, cwd, ret,
                   main, locals, ghost>>

\* lines 358-364; trunc_filename raises a TypeError before any rename
DelRename ==
    /\ pc = "del_rename"
    /\ LET trunc == trunc_filename(subproj, filename)
       IN  IF trunc = "TypeError"
           THEN /\ NoCall
                /\ Goto("crash")
                /\ UNCHANGED <<vss_files, vss_ckout, new_filename>>
           ELSE \E fail \in Fails :
                   LET old == Abs(<<filename>>)
                       new == Abs(<<trunc \o ts>>)
                       out == ss_rename(fail, old, new)
                   IN  /\ Call("rename", <<old, new>>, out, fail)
                       /\ new_filename' = trunc \o ts
                       /\ IF out = "ok"
                          THEN /\ vss_files' = (vss_files \ {old}) \cup {new}
                               /\ vss_ckout' =
                                     IF old \in vss_ckout
                                     THEN (vss_ckout \ {old}) \cup {new}
                                     ELSE vss_ckout
                               /\ Goto("del_delete")
                          ELSE /\ UNCHANGED <<vss_files, vss_ckout>>
                               /\ Goto("fatal_error")
    /\ UNCHANGED <<runs, src, vss_dirs, marker, vss_cwd, cwd, ret, main, subproj,
                   filename, k, cs_path, cs_dirs, des_subproj, ghost>>

delete_name_logical(fname, newname) == fname

\* line 366: cmd_vss_del.format(new_filename)
delete_name(fname, newname) == newname

\* lines 365-373
DelDelete ==
    /\ pc = "del_delete"
    /\ \E fail \in Fails :
          LET leaf == Abs(<<delete_name(filename, new_filename)>>)
              out  == ss_delete(fail, leaf)
          IN  /\ Call("delete", leaf, out, fail)
              /\ IF out = "ok"
                 THEN /\ vss_files' = vss_files \ {leaf}
                      /\ vss_ckout' = vss_ckout \ {leaf}
                 ELSE UNCHANGED <<vss_files, vss_ckout>>
              /\ IF out \in {"ok", "deleted"}
                 THEN IF isdir(subproj)
                      THEN des_subproj' = des_subproj /\ Return("deleted")
                      ELSE des_subproj' = subproj /\ Goto("des_dir")
                 ELSE des_subproj' = des_subproj /\ Goto("fatal_error")
    /\ UNCHANGED <<runs, src, vss_dirs, marker, vss_cwd, cwd, ret, main, subproj,
                   filename, k, cs_path, cs_dirs, new_filename, ghost>>

(***************************************************************************)
(* vss_delete_empty_subproj, lines 316-343.                                *)
(***************************************************************************)
\* lines 317-323: the output of ss dir is only searched for "No items found"
vss_dir_empty_always(out) == TRUE

\* line 322: "No items found" in out
vss_dir_empty(out) == out = "No items found"

DesDir ==
    /\ pc = "des_dir"
    /\ IF des_subproj = <<>>
       THEN NoCall /\ Return("deleted")
       ELSE \E fail \in Fails :
               LET out == ss_dir(fail)
               IN  /\ Call("dir", LowerPath(vss_cwd), out, fail)
                   /\ IF vss_dir_empty(out) THEN Goto("des_rename")
                      ELSE Return("deleted")
    /\ UNCHANGED <<runs, src, store, cwd, ret, main, locals, ghost>>

\* lines 326-333 and 335-337
DesRename ==
    /\ pc = "des_rename"
    /\ LET path  == dirname(des_subproj)
           trunc == trunc_filename(path, basename(des_subproj))
       IN  IF trunc = "TypeError"
           THEN /\ NoCall
                /\ Goto("crash")
                /\ UNCHANGED <<vss_dirs, new_filename>>
           ELSE \E fail \in Fails :
                   LET old == LowerPath(des_subproj)
                       new == LowerPath(path \o <<trunc \o ts>>)
                       out == ss_rename(fail, old, new)
                   IN  /\ Call("rename", <<old, new>>, out, fail)
                       /\ new_filename' = trunc \o ts
                       /\ IF out = "ok"
                          THEN /\ vss_dirs' = (vss_dirs \ {old}) \cup {new}
                               /\ Goto("des_delete")
                          ELSE /\ UNCHANGED vss_dirs
                               /\ Goto("fatal_error")
    /\ UNCHANGED <<runs, src, vss_files, vss_ckout, marker, vss_cwd, cwd, ret,
                   main, subproj, filename, k, cs_path, cs_dirs, des_subproj,
                   ghost>>

\* lines 334-337
DesDelete ==
    /\ pc = "des_delete"
    /\ \E fail \in Fails :
          LET dir == LowerPath(dirname(des_subproj) \o <<new_filename>>)
              out == ss_delete(fail, dir)
          IN  /\ Call("delete", dir, out, fail)
              /\ IF out = "ok"
                 THEN vss_dirs' = vss_dirs \ {dir} /\ Goto("des_cp")
                 ELSE vss_dirs' = vss_dirs /\ Goto("fatal_error")
    /\ UNCHANGED <<runs, src, vss_files, vss_ckout, marker, vss_cwd, cwd, ret,
                   main, locals, ghost>>

DesCp_stay ==
    /\ pc = "des_cp"
    /\ \E fail \in Fails :
          LET dir == LowerPath(dirname(des_subproj))
              out == ss_cd(fail, dir)
          IN  /\ Call("cd", dir, out, fail)
              /\ IF out = "ok"
                 THEN /\ vss_cwd' = dir
                      /\ des_subproj' = des_subproj
                      /\ Goto("des_dir")
                 ELSE /\ UNCHANGED <<vss_cwd, des_subproj>>
                      /\ Goto("fatal_error")
    /\ UNCHANGED <<runs, src, vss_dirs, vss_files, vss_ckout, marker, cwd, ret,
                   main, subproj, filename, k, cs_path, cs_dirs,
                   new_filename, ghost>>

\* lines 338-343: cp to the parent, then the recursive call on the parent
DesCp ==
    /\ pc = "des_cp"
    /\ \E fail \in Fails :
          LET dir == LowerPath(dirname(des_subproj))
              out == ss_cd(fail, dir)
          IN  /\ Call("cd", dir, out, fail)
              /\ IF out = "ok"
                 THEN /\ vss_cwd' = dir
                      /\ des_subproj' = dirname(des_subproj)
                      /\ Goto("des_dir")
                 ELSE /\ UNCHANGED <<vss_cwd, des_subproj>>
                      /\ Goto("fatal_error")
    /\ UNCHANGED <<runs, src, vss_dirs, vss_files, vss_ckout, marker, cwd, ret,
                   main, subproj, filename, k, cs_path, cs_dirs,
                   new_filename, ghost>>

(***************************************************************************)
(* vss_git_hash_set, lines 215-228 (after the vss_cd_root of line 455).    *)
(* Both calls of fatal_error raise instead: fatal_error(e) has too few     *)
(* arguments, and subproj and filename are not defined in this function.   *)
(***************************************************************************)
HashSet ==
    /\ pc = "hash_set"
    /\ \E fail \in Fails :
          LET out == ss_git_ckin(fail)
          IN  /\ Call("checkin", gitcommit, out, fail)
              /\ IF out = "ok"
                 THEN /\ marker' = git_hash
                      /\ vss_ckout' = vss_ckout \ {gitcommit}
                      /\ Goto("done")
                 ELSE /\ UNCHANGED <<marker, vss_ckout>>
                      /\ IF out = "not_existing" THEN Goto("hash_set_add")
                         ELSE Goto("crash")
    /\ UNCHANGED <<runs, src, vss_dirs, vss_files, vss_cwd, cwd, ret, main,
                   locals, ghost>>

HashSetAdd ==
    /\ pc = "hash_set_add"
    /\ \E fail \in Fails :
          LET out == ss_git_add(fail)
          IN  /\ Call("add", gitcommit, out, fail)
              /\ IF out = "ok"
                 THEN marker' = git_hash /\ Goto("done")
                 ELSE marker' = marker /\ Goto("crash")
    /\ UNCHANGED <<runs, src, vss_dirs, vss_files, vss_ckout, vss_cwd, cwd, ret,
                   main, locals, ghost>>

(***************************************************************************)
(* fatal_error, lines 165-175: undo every checkout below vss_proj (the     *)
(* result of ss.exe is not looked at), chdir to base_dir, sys.exit(1).     *)
(***************************************************************************)
FatalError ==
    /\ pc = "fatal_error"
    /\ \E fail \in Fails :
          /\ vss_ckout' = IF fail THEN vss_ckout ELSE {}
          /\ nfail' = IF fail THEN nfail + 1 ELSE nfail
          /\ issued' = Append(issued,
                 [op |-> "undocheckout", arg |-> <<>>,
                  out |-> IF fail THEN "unclassified" ELSE "ok"])
    /\ cwd' = <<>>
    /\ Goto("exit")
    /\ UNCHANGED <<runs, src, vss_dirs, vss_files, marker, vss_cwd, ret, main,
                   locals, ghost, failed>>

\* the exit status of the process, once it has ended
Ended == pc \in {"done", "exit", "crash"}

exit_code == IF pc = "done" THEN 0 ELSE 1

Next ==
    \/ GitSetup
    \/ CdRoot
    \/ CdRootCreate
    \/ CdRootCd
    \/ HashGet
    \/ ProcessChanges
    \/ ProcessChange
    \/ RenameCd
    \/ RenameCdCd
    \/ CreateSubproj
    \/ CreateCd
    \/ CreateCdCd
    \/ Add
    \/ AmCheckout
    \/ AmCheckinMine
    \/ AmCheckin
    \/ AmRename
    \/ DelCd
    \/ DelCheckout
    \/ DelRename
    \/ DelDelete
    \/ DesDir
    \/ DesRename
    \/ DesDelete
    \/ DesCp
    \/ HashSet
    \/ HashSetAdd
    \/ FatalError

Spec == Init /\ [][Next]_vars

(***************************************************************************)
(* The script is started again after it has ended: a new process, with the *)
(* database, the current VSS project and base_dir as the run before left   *)
(* them, and the same source.                                              *)
(***************************************************************************)
Restart ==
    /\ Ended
    /\ run < MaxRuns
    /\ run' = run + 1
    /\ ckout0' = vss_ckout
    /\ prev' = [pc |-> pc, git_ok |-> git_ok, marker |-> marker,
                dirs |-> vss_dirs, files |-> vss_files]
    /\ git_ok' \in BOOLEAN
    /\ pc' = "start"
    /\ ret' = "hash_get"
    /\ cwd' = <<>>
    /\ sync_commit' = None
    /\ changes' = <<>>
    /\ i' = 1
    /\ subproj' = <<>>
    /\ filename' = ""
    /\ k' = 1
    /\ cs_path' = <<>>
    /\ cs_dirs' = <<>>
    /\ des_subproj' = <<>>
    /\ new_filename' = ""
    /\ marker0' = marker
    /\ failed' = FALSE
    /\ issued' = <<>>
    /\ pre_dirs' = vss_dirs
    /\ pre_files' = vss_files
    /\ applied' = <<>>
    /\ result' = "none"
    /\ UNCHANGED <<hist, base_dir, store, nfail>>

NextRerun == Next \/ Restart

\* every call of ss.exe and of git returns, and the interpreter goes on:
\* a step that can be taken is taken
SpecFair == Spec /\ WF_vars(Next)

\* the same script on the sources with long paths
SpecLong == InitLong /\ [][Next]_vars

\* runs of the script that follow one another
SpecRerun == InitRerun /\ [][NextRerun]_vars

TypeOK ==
    /\ pc \in {"start", "cd_root", "cd_root_create", "cd_root_cd", "hash_get",
              "process_changes", "process_change", "rename_cd",
              "rename_cd_cd", "create_subproj", "create_cd", "create_cd_cd",
              "add", "am_checkout", "am_checkin_mine", "am_checkin",
              "am_rename", "del_cd", "del_checkout", "del_rename",
              "del_delete", "des_dir", "des_rename", "des_delete", "des_cp",
              "hash_set", "hash_set_add", "fatal_error", "done", "exit",
              "crash"}
    /\ i \in 1..(Len(changes) + 1)
    /\ nfail \in 0..MaxFail
    /\ vss_ckout \subseteq vss_files \cup {gitcommit}


(***************************************************************************)
(* Properties.                                                             *)
(***************************************************************************)
Aborted == pc \in {"fatal_error", "exit", "crash"}

\* the current record has been acted on and its handler has returned
Returned(res) == pc = "process_changes" /\ result = res

\* some call of the current record failed with a text matching no pattern
RecFailed == \E n \in 1..Len(issued) : issued[n].out = "unclassified"

Issued(op) == { n \in 1..Len(issued) : issued[n].op = op }

LeafLive(path) == LowerPath(path) \in vss_files

\* C1: the marker leaf is written only after every change record has been
\* processed; as long as the run has not ended successfully, and in
\* particular when it ends by a fatal error or an uncaught exception, the
\* marker in the database is the one the run started with.
C1_MarkerOnlyAfterBatch ==
    /\ pc # "done" => marker = marker0
    /\ pc = "done" => /\ i = Len(changes) + 1
                      /\ Len(applied) = Len(changes)
                      /\ marker = git_hash

C1_Witness ==
    /\ pc = "exit"
    /\ Len(changes) >= 2
    /\ i = 2
    /\ Len(applied) = 2
    /\ vss_files # TreeAt(hist, IF marker0 = None THEN 0 ELSE marker0)
    /\ marker0 # git_hash
    /\ marker = marker0

\* C2: when the run ends with exit code 0, every path of the change list is
\* a live leaf of the database if and only if it is a file of the source
\* working tree.
C2_ExitZeroAllApplied ==
    pc = "done" =>
        \A n \in 1..Len(changes) : LeafLive(changes[n]) <=> isfile(changes[n])

\* C3: once a primitive has failed with a text that matches no known
\* pattern, the run is on its way out with a non-zero exit and the marker is
\* the one the run started with; the failure is never skipped.
C3_UnclassifiedAborts ==
    failed => Aborted /\ marker = marker0

\* C4: when the run has ended by a fatal exit, no leaf is checked out by the
\* run's user and the current project of the database is the root.
C4_FatalReleasesAndRoot ==
    pc \in {"exit", "crash"} => vss_ckout = {} /\ vss_cwd = <<>>

\* the commit of the history that touched the path last
LastTouch(path) ==
    CHOOSE n \in 1..head :
        /\ LowerPath(hist[n].path) = LowerPath(path)
        /\ \A m \in (n + 1)..head :
              LowerPath(hist[m].path) # LowerPath(path)

\* C5: the change list is ordered as the paths were changed in the source
\* history, oldest first, a path that occurs several times standing where
\* (and as) its latest occurrence stands.
C5_ReplayOldestFirst ==
    /\ \A n \in 1..Len(changes) : changes[n] = hist[LastTouch(changes[n])].path
    /\ \A m, n \in 1..Len(changes) :
          m < n => LastTouch(changes[m]) < LastTouch(changes[n])

\* the paths touched by the commits after the marker the run started with
Touched ==
    { LowerPath(hist[n].path) :
        n \in ((IF marker0 = None THEN 0 ELSE marker0) + 1)..head }

\* C6: the change list holds at most one record per path, paths compared
\* without regard to case; each record is acted on once, in list order, with
\* the status the path has after its last change; a successful run has acted
\* on every path touched since the marker.
C6_OneRecordPerPath ==
    /\ \A m, n \in 1..Len(changes) :
          m # n => LowerPath(changes[m]) # LowerPath(changes[n])
    /\ Len(applied) <= Len(changes)
    /\ \A n \in 1..Len(applied) :
          /\ applied[n].path = changes[n]
          /\ applied[n].kind = hist[LastTouch(changes[n])].kind
    /\ pc = "done" =>
          /\ Len(applied) = Len(changes)
          /\ { LowerPath(changes[n]) : n \in 1..Len(changes) } = Touched

C6_Witness ==
    /\ pc = "done"
    /\ marker0 = None
    /\ hist = << [path |-> <<"a", "y">>, kind |-> "Upserted"],
                 [path |-> <<"a", "y">>, kind |-> "Removed"],
                 [path |-> <<"a", "Y">>, kind |-> "Upserted"] >>
    /\ applied = << [path |-> <<"a", "Y">>, kind |-> "Upserted"] >>

\* C7: when vss_add_or_modify has returned and no call of the record failed
\* with an unclassified text, every container from the root to subproj is
\* live, the leaf is live in subproj and the leaf is not checked out.
C7_UpsertPostcondition ==
    ((Returned("added") \/ Returned("modified")) /\ ~RecFailed) =>
        /\ Prefixes(LowerPath(subproj)) \subseteq vss_dirs
        /\ LowerPath(subproj \o <<filename>>) \in vss_files
        /\ LowerPath(subproj \o <<filename>>) \notin vss_ckout

C7_Witness ==
    /\ Returned("added")
    /\ ~RecFailed
    /\ subproj = <<"a", "b", "c">>
    /\ <<"a">> \in pre_dirs
    /\ <<"a", "b">> \notin pre_dirs
    /\ <<"a", "b", "c", "x">> \in vss_files

\* C8: in add-or-modify, when the checkout has reported that the leaf is
\* already checked out by the run's user, at most one checkin is issued for
\* the leaf, and once that checkin has succeeded the upsert does not end in
\* a fatal error.
C8_SingleCheckin ==
    (\E n \in Issued("checkout") :
        issued[n].out = "mine" /\ issued[n].arg # gitcommit
        /\ applied[Len(applied)].kind = "Upserted") =>
        /\ Cardinality(Issued("checkin")) <= 1
        /\ (\E n \in Issued("checkin") : issued[n].out = "ok") => ~Aborted

\* the last call of the current record
LastCall == issued[Len(issued)]

\* C9: when the checkout of a Removed record reports that the leaf does not
\* exist or has been deleted, vss_delete returns to the loop over the
\* records: no rename and no delete was issued, the containers and leaves
\* of the database are those the record started with, and no fatal error.
C9_DeleteAbsentNoop ==
    (/\ issued # <<>>
     /\ LastCall.op = "checkout"
     /\ LastCall.arg # gitcommit
     /\ LastCall.out \in {"not_existing", "deleted"}) =>
        /\ Returned("del_noop")
        /\ Issued("rename") = {} /\ Issued("delete") = {}
        /\ vss_dirs = pre_dirs
        /\ vss_files = pre_files

C9_Witness ==
    /\ Returned("del_noop")
    /\ LastCall.out = "deleted"
    /\ i <= Len(changes)
    /\ vss_files # {}

\* a container has content other than the removed leaf and the containers
\* of the leaf's chain
OtherContent(d) ==
    \E e \in (pre_files \cup pre_dirs) :
        /\ Len(e) > Len(d) /\ SubSeq(e, 1, Len(d)) = d
        /\ e # LowerPath(subproj \o <<filename>>)
        /\ e \notin Prefixes(LowerPath(subproj))

\* C10: after the delete of a leaf whose container has no counterpart in
\* the source, with no unclassified failure, the containers on the chain
\* from the leaf's container upwards are removed as long as they are
\* empty: a container of the chain stays exactly when it has other content.
C10_CascadeEmptyContainers ==
    (Returned("deleted") /\ ~RecFailed /\ ~isdir(subproj)) =>
        \A d \in Prefixes(LowerPath(subproj)) \ {<<>>} :
            d \in vss_dirs <=> OtherContent(d)

C10_Witness ==
    /\ Returned("deleted")
    /\ ~RecFailed
    /\ subproj = <<"a", "b", "c">>
    /\ {<<"a">>, <<"a", "b">>, <<"a", "b", "c">>} \subseteq pre_dirs
    /\ <<"a", "b", "c">> \notin vss_dirs
    /\ <<"a", "b">> \notin vss_dirs
    /\ <<"a">> \in vss_dirs


\* the source tree has a file below the container
InSource(d) == \E f \in worktree : d \in Ancestors(f)

\* containers the current record has taken away (renamed for deletion or
\* deleted)
Gone == pre_dirs \ vss_dirs

\* C11 (as stated): every container the cascade takes away, the leaf's
\* container and each ancestor alike, has no child left in the source tree,
\* and the root is never taken away.
C11_RemovedOnlyIfAbsentInSource ==
    \A d \in Gone : d # <<>> /\ ~InSource(d)

\* C11 (amended): the cascade runs only when the leaf's container has no
\* child left in the source tree; every container it takes away is on the
\* chain of the leaf's container, is not the root and is empty in the
\* database; the ancestors are not compared with the source tree.
C11_RemovedOnlyIfEmpty ==
    \A d \in Gone :
        /\ d # <<>>
        /\ d \in Prefixes(LowerPath(subproj))
        /\ ~InSource(LowerPath(subproj))
        /\ \A e \in vss_dirs \cup vss_files :
              ~(Len(e) > Len(d) /\ SubSeq(e, 1, Len(d)) = d)

C11_Witness ==
    /\ Returned("deleted")
    /\ ~RecFailed
    /\ subproj = <<"a", "b", "c">>
    /\ {<<"a", "b">>, <<"a", "b", "c">>} \subseteq Gone
    /\ InSource(<<"a", "b">>)
    /\ <<>> \in vss_dirs

\* C16: when a change record starts being acted on, and from the
\* vss_cd_root of line 455 to the successful end of the run, the current
\* project of the database is the root and the working directory is
\* base_dir, wherever the record before has left them.
C16_AnchoredAtRoot ==
    pc \in {"process_change", "hash_set", "hash_set_add", "done"} =>
        vss_cwd = <<>> /\ cwd = <<>>

C16_Witness ==
    /\ pc = "process_change"
    /\ i = 2
    /\ result = "added"
    /\ subproj = <<"a", "b", "c">>
    /\ vss_cwd = <<>>
    /\ cwd = <<>>

\* C17: the records are acted on once each, in list order, i counting from
\* 1 to the length of the list; once the run is in fatal_error or has ended,
\* no further record is started and nothing but the undocheckout of
\* fatal_error is issued.
C17_EachRecordOnceInOrder ==
    /\ [](/\ i \in 1..(Len(changes) + 1)
          /\ Len(applied) \in {i - 1, i}
          /\ \A n \in 1..Len(applied) : applied[n].path = changes[n])
    /\ [][Aborted =>
            /\ pc = "fatal_error"
            /\ pc' = "exit"
            /\ i' = i
            /\ applied' = applied
            /\ <<vss_dirs, vss_files, marker, vss_cwd>>'
                  = <<vss_dirs, vss_files, marker, vss_cwd>>
            /\ Len(issued') = Len(issued) + 1
            /\ issued'[Len(issued')].op = "undocheckout"]_vars

C17_Witness ==
    /\ pc = "exit"
    /\ i = 1
    /\ Len(changes) = 3
    /\ Len(applied) = 1
    /\ failed

\* the calls of the current record that are safe-delete renames
SafeRenames == { n \in Issued("rename") : issued[n].arg[1] # issued[n].arg[2] }

\* C20: every delete follows directly a successful rename of the same entry
\* to a timestamped name and is issued on that new name, never on the
\* logical name; the rename of a leaf follows directly a checkout of the
\* leaf that succeeded or reported the leaf checked out by the user.
C20_DeleteOnlyAfterRename ==
    /\ \A n \in Issued("delete") :
          /\ n - 1 \in SafeRenames
          /\ issued[n - 1].out = "ok"
          /\ issued[n].arg = issued[n - 1].arg[2]
          /\ issued[n].arg # issued[n - 1].arg[1]
          /\ basename(issued[n].arg)
                = basename(issued[n - 1].arg[1]) \o ts
    /\ \A n \in SafeRenames :
          issued[n].arg[1] = LowerPath(subproj \o <<filename>>) =>
              /\ n - 1 \in Issued("checkout")
              /\ issued[n - 1].arg = issued[n].arg[1]
              /\ issued[n - 1].out \in {"ok", "mine"}

C20_Witness ==
    /\ Returned("deleted")
    /\ Cardinality(Issued("delete")) = 3
    /\ \E n \in Issued("checkout") : issued[n].out = "mine"


\* the names the source gives to containers and leaves
SourceNames ==
    UNION { { lower(hist[n].path[j]) : j \in 1..Len(hist[n].path) } :
              n \in 1..Len(hist) } \cup {""}

\* C12: every rename of the safe-delete protocol, of a leaf or of a
\* container, stays in the container, takes as new name a prefix of the old
\* name followed by the timestamp, and keeps len(container path) + 1 +
\* len(new name) within pathlen_vss; add and create are issued with the
\* names of the source only.
C12_RenameWithinBudget ==
    /\ \A n \in SafeRenames :
          LET old == issued[n].arg[1]
              new == issued[n].arg[2]
          IN  /\ dirname(new) = dirname(old)
              /\ \E j \in 0..Len(basename(old)) :
                    basename(new) = SubSeq(basename(old), 1, j) \o ts
              /\ StrLen(dirname(new)) + 1 + Len(basename(new)) <= pathlen_vss
    /\ \A n \in Issued("add") \cup Issued("create") :
          \/ issued[n].arg = gitcommit
          \/ basename(issued[n].arg) \in SourceNames

C12_Witness ==
    \E n \in SafeRenames :
        /\ issued[n].out = "ok"
        /\ Len(basename(issued[n].arg[2]))
              < Len(basename(issued[n].arg[1])) + ts_size
        /\ Len(basename(issued[n].arg[2])) > ts_size
        /\ StrLen(dirname(issued[n].arg[2])) + 1
              + Len(basename(issued[n].arg[2])) = pathlen_vss

\* the container of the current record leaves no room for the timestamp
NoRoom == StrLen(LowerPath(subproj)) + 1 + ts_size > pathlen_vss

\* the current record is a Removed one whose leaf has been checked out
RemovingCheckedOut ==
    /\ applied # <<>>
    /\ applied[Len(applied)].kind = "Removed"
    /\ pc # "process_change"
    /\ \E n \in Issued("checkout") :
          /\ issued[n].arg = LowerPath(subproj \o <<filename>>)
          /\ issued[n].out \in {"ok", "mine"}

Mutating == {"create", "add", "checkin", "rename", "delete"}

\* C14: when git clone or git fetch fails, the run does not end
\* successfully, issues no primitive that changes the database, and leaves
\* the marker as it was.
C14_SetupFailureIsFatal ==
    (~git_ok /\ pc # "start") =>
        /\ pc # "done"
        /\ marker = marker0
        /\ \A n \in 1..Len(issued) : issued[n].op \notin Mutating

\* the marker has been looked up and the change list computed
Replaying ==
    pc \in {"process_changes", "process_change", "hash_set", "hash_set_add",
            "done"}

\* C15: a run that finds no marker goes on without an error and replays the
\* paths of the whole history; a run that finds a marker replays the paths
\* of the commits after the marker's only; a successful run leaves a marker
\* that holds the revision of the source.
C15_MarkerDecidesReplay ==
    /\ Replaying =>
          /\ sync_commit = marker0
          /\ { LowerPath(changes[n]) : n \in 1..Len(changes) }
                = { LowerPath(hist[n].path) :
                      n \in ((IF marker0 = None THEN 0 ELSE marker0) + 1)
                               ..Len(hist) }
    /\ (marker0 = None /\ Aborted) => failed
    /\ pc = "done" => marker # None /\ marker = Len(hist)

\* the database holds the leaves and containers of the source, and no more
Mirrors ==
    /\ vss_files = TreeAt(hist, Len(hist))
    /\ vss_dirs = DirsOf(TreeAt(hist, Len(hist))) \cup {<<>>}

\* what one uninterrupted run without any failure produces
SingleRunMirrors == (pc = "done" /\ git_ok /\ nfail = 0) => Mirrors

\* the current run has issued nothing but cd, dir and undocheckout on
\* anything other than the marker leaf
OnlyMarkerTouched ==
    \A n \in 1..Len(issued) :
        issued[n].op \in {"add", "checkout", "checkin", "rename", "delete"}
            => issued[n].arg = gitcommit

\* the current run has nothing to replay and has changed nothing
Idle ==
    /\ marker0 = Len(hist)
    /\ changes = <<>>
    /\ applied = <<>>
    /\ OnlyMarkerTouched
    /\ marker = prev.marker
    /\ vss_dirs = prev.dirs
    /\ vss_files = prev.files

\* C18: a run that follows a run ended with exit status 0, the source being
\* the same, starts from a marker equal to the revision of the source, has
\* an empty change list, issues add, checkout, checkin, rename and delete
\* for the marker leaf only, and leaves the marker and the leaves and
\* containers of the database as they were.
C18_RepeatedRunIsIdle == (run > 1 /\ prev.pc = "done") => Idle

\* the same, when git clone and git fetch of the run before succeeded
RepeatedRunIsIdleAfterFetch ==
    (run > 1 /\ prev.pc = "done" /\ prev.git_ok) => Idle

\* no live entry of the database has a name that ends with the timestamp
NoTransient ==
    \A e \in (vss_dirs \cup vss_files) \ {<<>>} :
        \/ Len(basename(e)) < ts_size
        \/ SubSeq(basename(e), Len(basename(e)) - ts_size + 1,
                  Len(basename(e))) # lower(ts)

\* C19: when a run ends by a fatal error or an exception and the next run,
\* on the same source revision, ends with exit status 0, the database holds
\* what one uninterrupted run produces (see SingleRunMirrors) and no entry
\* with a timestamped name.
C19_ResumeConverges ==
    (/\ run > 1
     /\ pc = "done"
     /\ prev.pc \in {"exit", "crash"}
     /\ prev.git_ok
     /\ git_ok) => Mirrors /\ NoTransient

\* C21: when the run has ended with exit status 0, the run's user has no
\* entry of the database checked out.
C21_NoCheckoutAtSuccess == pc = "done" => vss_ckout = {}

\* C21 (amended): between two records and at the end of a successful run,
\* the only leaves checked out are leaves that were checked out before the
\* run started; a leaf the current record has checked out, or has found
\* checked out, is no longer checked out when the record is done; after a
\* successful run the marker leaf is not checked out.
C21_OwnCheckoutsReleased ==
    /\ pc \in {"process_changes", "done"} =>
          vss_ckout \ {gitcommit} \subseteq ckout0
    /\ pc = "process_changes" =>
          \A n \in Issued("checkout") :
              (issued[n].out \in {"ok", "mine"} /\ issued[n].arg # gitcommit)
                  => issued[n].arg \notin vss_ckout
    /\ pc = "done" => gitcommit \notin vss_ckout

C21_Witness ==
    /\ pc = "done"
    /\ marker0 # None
    /\ Len(applied) = 2
    /\ applied[1].kind = "Upserted"
    /\ applied[1].path \in pre_files
    /\ ckout0 # {}
    /\ vss_ckout = {}

\* C22: every run ends, with exit status 0 or by a fatal exit or an
\* exception.  Each recursive call of vss_create_subproj is made on a path
\* one component shorter, never on the empty path; each recursive call of
\* vss_delete_empty_subproj is made on a path one component shorter; both
\* start from the container path of the record, so neither makes more
\* recursive calls than this path has components, and the cascade of one
\* record issues ss dir at most once per component.
C22_Terminates ==
    /\ <>Ended
    /\ [](pc = "create_subproj" => Len(cs_path) \in 1..Len(subproj))
    /\ [][(pc = "create_subproj" /\ pc' = "create_subproj") =>
             /\ Len(cs_path') = Len(cs_path) - 1
             /\ Len(cs_path') >= 1]_vars
    /\ [](pc \in {"des_dir", "des_rename", "des_delete", "des_cp"} =>
             Len(des_subproj) <= Len(subproj))
    /\ [][(pc = "des_cp" /\ pc' = "des_dir") =>
             Len(des_subproj') = Len(des_subproj) - 1]_vars
    /\ [](Cardinality(Issued("dir")) <= Len(subproj))

C22_Witness ==
    /\ pc = "done"
    /\ Len(applied) = 1
    /\ applied[1] = [path |-> <<"a", "b", "c", "x">>, kind |-> "Removed"]
    /\ marker0 = 1
    /\ hist[1] = [path |-> <<"a", "b", "c", "x">>, kind |-> "Upserted"]
    /\ des_subproj = <<>>
    /\ vss_dirs = {<<>>}

=============================================================================
